---- MODULE Spec2Model ----
(***************************************************************************)
(* The stateful Calculator of src/src/calculator/calculator_class.py:      *)
(* rounding arithmetic, an operation log (history), the most recent result *)
(* (last_result) and chaining on that result.                              *)
(*                                                                         *)
(* Numbers.  A Python number is a record [kind, units]: kind is "int" or   *)
(* "float" (the two print differently: 5 and 5.0) and units is its value   *)
(* in multiples of 1/Scale.  None is the record of kind "None".  Operands  *)
(* handed in by callers are small non-negative ints, as in the tests.      *)
(*                                                                         *)
(* Strings.  A history entry is the sequence of the tokens of the f-string *)
(* that built it; a number token stands for the repr text of the number,   *)
(* so it keeps the number's kind.  float() of a number token is the float  *)
(* of the same value, whatever the token's kind.                           *)
(***************************************************************************)
EXTENDS Integers, Sequences, FiniteSets, TLC

\* ---------------------------------------------------------------- bounds
\* operation calls made on one Calculator
MaxCalls == 3
\* largest precision a Calculator is constructed with
MaxPrecision == 2
\* longest list handed to calculate_average
MaxListLen == 2
\* operation calls made on a Calculator whose caller keeps the lists that
\* get_history returns
MaxKeptCalls == 2

RECURSIVE Pow10(_)
Pow10(n) == IF n = 0 THEN 1 ELSE 10 * Pow10(n - 1)

\* values are kept in multiples of 1/Scale
Scale == Pow10(MaxPrecision)

\* precisions a Calculator is constructed with
Precisions == {0, MaxPrecision}

\* ---------------------------------------------------------------- numbers
None == [kind |-> "None", units |-> 0]
PyInt(n) == [kind |-> "int", units |-> n * Scale]
PyFloat(u) == [kind |-> "float", units |-> u]

\* operand pairs of the direct calls add, multiply, divide
LeftOperands == {PyInt(10)}
RightOperands == {PyInt(0), PyInt(3), PyInt(5)}
\* second operand of chain_operation
ChainValues == {PyInt(0), PyInt(2), PyInt(3)}
\* operation names handed to chain_operation
OpNames == {"add", "mul", "div", "multiply", "divide", "foo"}
\* the lists handed to calculate_average: [], [10], [10, 5], [10, 5, 10], ...
NumberLists ==
    {[i \in 1..n |-> IF i % 2 = 1 THEN PyInt(10) ELSE PyInt(5)] : n \in 0..MaxListLen}

\* Python's == on numbers compares values, not types (5 == 5.0)
NumEq(x, y) == x.kind # "None" /\ y.kind # "None" /\ x.units = y.units

RECURSIVE GCD(_, _)
GCD(a, b) == IF b = 0 THEN a ELSE GCD(b, a % b)

RECURSIVE IsPow2(_)
IsPow2(n) == IF n = 1 THEN TRUE ELSE IF n % 2 = 0 THEN IsPow2(n \div 2) ELSE FALSE

\* the rational N/D is a binary fraction, hence an exact double
IsDyadic(N, D) == IsPow2(D \div GCD(N, D))

(***************************************************************************)
(* round(x, p) for the double nearest to N/D (N >= 0, D > 0), as the set   *)
(* of results it can give, in units.  Off a tie the result is the nearest  *)
(* multiple of 10^-p.  On a tie that is an exact double the host rounds    *)
(* half to even.  A tie that is not a binary fraction is not a double: the *)
(* double computed for it lies just above or just below, and round()       *)
(* follows it, so either neighbour is possible.                            *)
(***************************************************************************)
RoundOutcomes(N, D, p) ==
    LET g == GCD(Pow10(p), D)
        n == N * (Pow10(p) \div g)
        d == D \div g
        q == n \div d
        rem == n % d
        step == Scale \div Pow10(p)
        lower == q * step
        upper == (q + 1) * step
    IN  IF 2 * rem < d THEN {lower}
        ELSE IF 2 * rem > d THEN {upper}
        ELSE IF IsDyadic(N, D) THEN {IF q % 2 = 0 THEN lower ELSE upper}
        ELSE {lower, upper}

\* round(int, p) with p >= 0 returns the int itself; any float operand
\* makes the result a float
ResultKind(a, b) == IF a.kind = "int" /\ b.kind = "int" THEN "int" ELSE "float"

\* ---------------------------------------------------------------- strings
Sym(s) == [kind |-> "sym", text |-> s, units |-> 0]
Num(v) == [kind |-> v.kind, text |-> "", units |-> v.units]
ERROR == Sym("ERROR")
EQ == Sym("=")

\* f"{a} <op> {b} = {result}"
BinaryEntry(a, sym, b, res) == <<Num(a), Sym(sym), Num(b), EQ, res>>
\* f"avg({numbers}) = {result}"
AvgEntry(numbers, res) ==
    <<Sym("avg([")>> \o [i \in 1..Len(numbers) |-> Num(numbers[i])]
                     \o <<Sym("])"), EQ, res>>

\* operation.split("=")[-1]: the tokens after the last "="
LastPiece(operation) ==
    LET eqs == {i \in 1..Len(operation) : operation[i] = EQ}
        last == IF eqs = {} THEN 0
                ELSE CHOOSE i \in eqs : \A j \in eqs : j <= i
    IN  SubSeq(operation, last + 1, Len(operation))

\* int() in place of float(): the fraction of the logged result is dropped
ToFloat_truncating(piece) ==
    CASE Len(piece) = 1 /\ piece[1].kind \in {"int", "float"} ->
            PyFloat((piece[1].units \div Scale) * Scale)

\* float(text.strip()): defined on the text of one number, a ValueError on
\* anything else
ToFloat(piece) ==
    CASE Len(piece) = 1 /\ piece[1].kind \in {"int", "float"} -> PyFloat(piece[1].units)

\* ---------------------------------------------------------------- state
\* the Calculator's fields
VARIABLES precision, history, last_result
\* the call made last and how it ended
VARIABLES call, ret
\* counted since construction: attempts, the operation calls made; succeeded,
\* those that returned; divzero, those that failed on a division by zero.
\* cleared: the three counters as they were at the last clear_history
VARIABLES attempts, succeeded, divzero, cleared
\* the list object the caller got from its latest get_history and kept:
\* ref says whether it is the object self.history is bound to ("history"),
\* an object the Calculator no longer refers to ("detached"), or that no
\* list was returned yet ("none"); items is its content now, taken the
\* number of entries it had when it was returned
VARIABLES held
\* whether the caller keeps the list get_history returns or drops it
VARIABLES keeps
vars == <<precision, history, last_result, call, ret,
          attempts, succeeded, divzero, cleared, held, keeps>>

NoList == [ref |-> "none", items |-> <<>>, taken |-> 0]
\* list.append: the object changes in place, for every holder of a
\* reference to it
AppendInPlace(operation) ==
    IF held.ref = "history" THEN [held EXCEPT !.items = Append(@, operation)]
    ELSE held

\* ValueError messages
DivisionByZero == "Cannot divide by zero"
EmptyInput == "Cannot calculate average of empty list"
NoPreviousResult == "No previous result to chain"
UnknownOperation == "Unknown operation"

Returned(v) == [status |-> "returned", value |-> v, error |-> "", list |-> <<>>]
Raised(msg) == [status |-> "raised", value |-> None, error |-> msg, list |-> <<>>]
ReturnedList(l) == [status |-> "returned", value |-> None, error |-> "", list |-> l]
Call(name, op, args) == [name |-> name, op |-> op, args |-> args]

\* Calculator.__init__
Construct ==
    /\ precision \in Precisions
    /\ history = <<>>
    /\ last_result = None
    /\ call = Call("__init__", "", <<>>)
    /\ ret = Returned(None)
    /\ attempts = 0
    /\ succeeded = 0
    /\ divzero = 0
    /\ cleared = [attempts |-> 0, succeeded |-> 0, divzero |-> 0]
    /\ held = NoList

\* a Calculator whose caller drops the lists get_history returns
Init == Construct /\ keeps = FALSE

\* a Calculator whose caller keeps the list get_history returned last
InitAlias == Construct /\ keeps = TRUE

\* ---------------------------------------------------------------- methods
\* _log_operation inserting the entry at the front of the log
log_operation_prepend(operation, error) ==
    /\ history' = <<operation>> \o history
    /\ held' = IF held.ref = "history" THEN [held EXCEPT !.items = <<operation>> \o @]
               ELSE held
    /\ last_result' = IF error THEN last_result
                      ELSE ToFloat(LastPiece(operation))

\* _log_operation clearing last_result when the operation failed
log_operation_reset(operation, error) ==
    /\ history' = Append(history, operation)
    /\ held' = AppendInPlace(operation)
    /\ last_result' = IF error THEN None
                      ELSE ToFloat(LastPiece(operation))

\* Calculator._log_operation
log_operation(operation, error) ==
    /\ history' = Append(history, operation)
    /\ held' = AppendInPlace(operation)
    /\ last_result' = IF error THEN last_result
                      ELSE ToFloat(LastPiece(operation))

\* Calculator.add
add(a, b) ==
    \E u \in RoundOutcomes(a.units + b.units, Scale, precision) :
        LET result == [kind |-> ResultKind(a, b), units |-> u]
        IN  /\ log_operation(BinaryEntry(a, "+", b, Num(result)), FALSE)
            /\ ret' = Returned(result)

\* divide raising on a zero divisor before anything is logged
divide_unlogged(a, b) ==
    IF b.units = 0
    THEN /\ ret' = Raised(DivisionByZero)
         /\ UNCHANGED <<history, last_result, held>>
    ELSE \E u \in RoundOutcomes(a.units, b.units, precision) :
            LET result == PyFloat(u)
            IN  /\ log_operation(BinaryEntry(a, "/", b, Num(result)), FALSE)
                /\ ret' = Returned(result)

\* Calculator.divide
divide(a, b) ==
    IF b.units = 0
    THEN /\ log_operation(BinaryEntry(a, "/", b, ERROR), TRUE)
         /\ ret' = Raised(DivisionByZero)
    ELSE \E u \in RoundOutcomes(a.units, b.units, precision) :
            LET result == PyFloat(u)
            IN  /\ log_operation(BinaryEntry(a, "/", b, Num(result)), FALSE)
                /\ ret' = Returned(result)

\* Calculator.multiply
multiply(a, b) ==
    \E u \in RoundOutcomes(a.units * b.units, Scale * Scale, precision) :
        LET result == [kind |-> ResultKind(a, b), units |-> u]
        IN  /\ log_operation(BinaryEntry(a, "*", b, Num(result)), FALSE)
            /\ ret' = Returned(result)

RECURSIVE SumUnits(_)
SumUnits(numbers) ==
    IF numbers = <<>> THEN 0 ELSE Head(numbers).units + SumUnits(Tail(numbers))

\* calculate_average logging an error entry for an empty list, as divide
\* does for a zero divisor
calculate_average_logged(numbers) ==
    IF numbers = <<>>
    THEN /\ log_operation(AvgEntry(numbers, ERROR), TRUE)
         /\ ret' = Raised(EmptyInput)
    ELSE \E u \in RoundOutcomes(SumUnits(numbers), Len(numbers) * Scale, precision) :
            LET result == PyFloat(u)
            IN  /\ log_operation(AvgEntry(numbers, Num(result)), FALSE)
                /\ ret' = Returned(result)

\* Calculator.calculate_average
calculate_average(numbers) ==
    IF numbers = <<>>
    THEN /\ ret' = Raised(EmptyInput)
         /\ UNCHANGED <<history, last_result, held>>
    ELSE \E u \in RoundOutcomes(SumUnits(numbers), Len(numbers) * Scale, precision) :
            LET result == PyFloat(u)
            IN  /\ log_operation(AvgEntry(numbers, Num(result)), FALSE)
                /\ ret' = Returned(result)

\* get_history returning a copy of the log, list(self.history)
get_history_copy ==
    /\ ret' = ReturnedList(history)
    /\ held' = IF keeps
               THEN [ref |-> "detached", items |-> history, taken |-> Len(history)]
               ELSE held
    /\ UNCHANGED <<history, last_result>>

\* Calculator.get_history: the caller is handed self.history itself
get_history ==
    /\ ret' = ReturnedList(history)
    /\ held' = IF keeps
               THEN [ref |-> "history", items |-> history, taken |-> Len(history)]
               ELSE held
    /\ UNCHANGED <<history, last_result>>

\* clear_history emptying the log but keeping the last result
clear_history_keeps_result ==
    /\ history' = <<>>
    /\ held' = IF held.ref = "history" THEN [held EXCEPT !.ref = "detached"] ELSE held
    /\ last_result' = last_result
    /\ ret' = Returned(None)

\* Calculator.clear_history: self.history is bound to a new empty list; the
\* list it was bound to is left as it is
clear_history ==
    /\ history' = <<>>
    /\ held' = IF held.ref = "history" THEN [held EXCEPT !.ref = "detached"] ELSE held
    /\ last_result' = None
    /\ ret' = Returned(None)

\* the dispatch table with the long names as aliases
operations_aliased ==
    [add |-> "add", mul |-> "multiply", div |-> "divide",
     multiply |-> "multiply", divide |-> "divide"]

\* the dispatch table with mul and div exchanged
operations_exchanged == [add |-> "add", mul |-> "divide", div |-> "multiply"]

\* the dispatch table of chain_operation: operation name -> method
operations == [add |-> "add", mul |-> "multiply", div |-> "divide"]

\* operations[op](x, y)
Invoke(method, x, y) ==
    CASE method = "add" -> add(x, y)
      [] method = "multiply" -> multiply(x, y)
      [] method = "divide" -> divide(x, y)

\* chain_operation looking the name up before it looks at last_result
chain_operation_name_first(op, value) ==
    IF op \notin DOMAIN operations
    THEN /\ ret' = Raised(UnknownOperation)
         /\ UNCHANGED <<history, last_result, held>>
    ELSE IF last_result = None
    THEN /\ ret' = Raised(NoPreviousResult)
         /\ UNCHANGED <<history, last_result, held>>
    ELSE Invoke(operations[op], last_result, value)

\* Calculator.chain_operation
chain_operation(op, value) ==
    IF last_result = None
    THEN /\ ret' = Raised(NoPreviousResult)
         /\ UNCHANGED <<history, last_result, held>>
    ELSE IF op \notin DOMAIN operations
    THEN /\ ret' = Raised(UnknownOperation)
         /\ UNCHANGED <<history, last_result, held>>
    ELSE Invoke(operations[op], last_result, value)

\* ---------------------------------------------------------------- calls
\* bookkeeping of one operation call: what was called and how it ended
Count(name, op, args) ==
    /\ attempts < MaxCalls
    /\ call' = Call(name, op, args)
    /\ attempts' = attempts + 1
    /\ succeeded' = succeeded + (IF ret'.status = "returned" THEN 1 ELSE 0)
    /\ divzero' = divzero + (IF ret'.error = DivisionByZero THEN 1 ELSE 0)
    /\ UNCHANGED <<precision, cleared, keeps>>

Add ==
    \E a \in LeftOperands, b \in RightOperands :
        add(a, b) /\ Count("add", "", <<a, b>>)

Multiply ==
    \E a \in LeftOperands, b \in RightOperands :
        multiply(a, b) /\ Count("multiply", "", <<a, b>>)

Divide ==
    \E a \in LeftOperands, b \in RightOperands :
        divide(a, b) /\ Count("divide", "", <<a, b>>)

CalculateAverage ==
    \E numbers \in NumberLists :
        calculate_average(numbers) /\ Count("calculate_average", "", numbers)

ChainOperation ==
    \E op \in OpNames, value \in ChainValues :
        chain_operation(op, value) /\ Count("chain_operation", op, <<value>>)

GetHistory ==
    /\ get_history
    /\ call' = Call("get_history", "", <<>>)
    /\ UNCHANGED <<precision, attempts, succeeded, divzero, cleared, keeps>>

ClearHistory ==
    /\ clear_history
    /\ call' = Call("clear_history", "", <<>>)
    /\ cleared' = [attempts |-> attempts, succeeded |-> succeeded, divzero |-> divzero]
    /\ UNCHANGED <<precision, attempts, succeeded, divzero, keeps>>

Next ==
    \/ Add
    \/ Multiply
    \/ Divide
    \/ CalculateAverage
    \/ ChainOperation
    \/ GetHistory
    \/ ClearHistory

Spec == Init /\ [][Next]_vars

\* the calls of a caller that keeps the returned list
WithinKept == attempts' <= MaxKeptCalls

NextAlias ==
    \/ Add /\ WithinKept
    \/ Multiply /\ WithinKept
    \/ Divide /\ WithinKept
    \/ CalculateAverage /\ WithinKept
    \/ ChainOperation /\ WithinKept
    \/ GetHistory
    \/ ClearHistory

SpecAlias == InitAlias /\ [][NextAlias]_vars

\* ================================================================ properties
IsPrefix(s, t) == Len(s) <= Len(t) /\ SubSeq(t, 1, Len(s)) = s
LastEntry(h) == h[Len(h)]
\* the entry ends in the error marker
IsErrorEntry(e) == e[Len(e)] = ERROR
\* the step just taken was a call of the named method
Called(name) == call'.name = name
\* the operations counted by the history length invariant
OperationNames == {"add", "multiply", "divide", "calculate_average", "chain_operation"}

\* ---------------------------------------------------------------- C1
\* C1 as stated: on a Calculator that was never cleared the history holds
\* one entry per operation call made, failed calls included.
C1_AsStated == cleared.attempts = 0 => Len(history) = attempts

\* C1, amended: the history holds one entry per call that returned or that
\* failed on a division by zero, counted since construction or the last
\* clear_history; the calls that raise before anything is logged
\* (calculate_average of an empty list, chain_operation with no previous
\* result or with an unknown name) add no entry.
C1_HistoryLength ==
    /\ Len(history) = (succeeded - cleared.succeeded) + (divzero - cleared.divzero)
    /\ Len(history) <= attempts - cleared.attempts

\* three calls made, one of each kind: logged success, logged failure,
\* unlogged failure
C1_Witness ==
    /\ cleared.attempts = 0
    /\ attempts = 3
    /\ succeeded = 1
    /\ divzero = 1
    /\ Len(history) = 2

\* ---------------------------------------------------------------- C2
\* the step is divide(a, b), called directly or through chain_operation
DivideStep(a, b) ==
    \/ Called("divide") /\ call'.args = <<a, b>>
    \/ /\ Called("chain_operation")
       /\ call'.op = "div"
       /\ call'.args = <<b>>
       /\ last_result # None
       /\ a = last_result

\* C2: divide(a, b) with b = 0, from any state, appends the one entry
\* "<a> / <b> = ERROR" to the end of history, raises the division-by-zero
\* error with that entry already in place, and leaves last_result as it was.
C2_DivideByZero ==
    [][\A a \in LeftOperands \cup {last_result}, b \in RightOperands \cup ChainValues :
          (DivideStep(a, b) /\ b.units = 0) =>
              /\ history' = Append(history, <<Num(a), Sym("/"), Num(b), EQ, ERROR>>)
              /\ ret' = Raised(DivisionByZero)
              /\ last_result' = last_result]_vars

\* a division by zero raised on a Calculator that holds a result
C2_Witness ==
    /\ call.name = "divide"
    /\ ret = Raised(DivisionByZero)
    /\ last_result # None
    /\ Len(history) >= 2
    /\ LastEntry(history) = <<Num(PyInt(10)), Sym("/"), Num(PyInt(0)), EQ, ERROR>>

\* ---------------------------------------------------------------- C3
\* C3 as stated: calculate_average of an empty list raises the empty-input
\* error, appends an error-marked entry to history and leaves last_result
\* as it was.
C3_AsStated ==
    [][(Called("calculate_average") /\ call'.args = <<>>) =>
          /\ ret' = Raised(EmptyInput)
          /\ Len(history') = Len(history) + 1
          /\ IsPrefix(history, history')
          /\ IsErrorEntry(LastEntry(history'))
          /\ last_result' = last_result]_vars

\* ---------------------------------------------------------------- C4
\* C4: a call that raises leaves last_result as it was, whatever the
\* failure: division by zero, empty list, no previous result, unknown name.
C4_FailureKeepsLastResult ==
    [][(call'.name \in OperationNames /\ ret'.status = "raised") =>
          last_result' = last_result]_vars

\* a chained division by zero: the error entry is the last of the history
\* and last_result still is the result of the call before
C4_Witness ==
    /\ call.name = "chain_operation"
    /\ ret = Raised(DivisionByZero)
    /\ Len(history) = 2
    /\ IsErrorEntry(LastEntry(history))
    /\ last_result = ToFloat(LastPiece(history[1]))

\* ---------------------------------------------------------------- C5
Abs(x) == IF x < 0 THEN 0 - x ELSE x
\* the quantum of a result rounded to the Calculator's precision
Step == Scale \div Pow10(precision)
OpSymbol(m) == CASE m = "add" -> "+" [] m = "multiply" -> "*" [] m = "divide" -> "/"

\* u is the exact result of method m on (a, b) rounded to the precision: a
\* multiple of the quantum, at most half a quantum from the exact result
IsRounded(m, a, b, u) ==
    /\ u % Step = 0
    /\ CASE m = "add" -> 2 * Abs(u - (a.units + b.units)) <= Step
         [] m = "multiply" -> 2 * Abs(u * Scale - a.units * b.units) <= Step * Scale
         [] m = "divide" -> 2 * Abs(u * b.units - a.units * Scale) <= Step * b.units

\* what one call m(a, b) does: a zero divisor logs the error entry, raises
\* and keeps last_result; anything else returns the rounded result, logs
\* "<a> <op> <b> = <result>" and makes last_result the float of the result
MethodStep(m, a, b) ==
    IF m = "divide" /\ b.units = 0
    THEN /\ history' = Append(history, <<Num(a), Sym("/"), Num(b), EQ, ERROR>>)
         /\ ret' = Raised(DivisionByZero)
         /\ last_result' = last_result
    ELSE /\ ret'.status = "returned"
         /\ ret'.value.kind \in {"int", "float"}
         /\ IsRounded(m, a, b, ret'.value.units)
         /\ history' = Append(history,
                <<Num(a), Sym(OpSymbol(m)), Num(b), EQ, Num(ret'.value)>>)
         /\ last_result' = PyFloat(ret'.value.units)

C6_ChainWithoutResult ==
    [][(Called("chain_operation") /\ last_result = None) =>
          /\ ret' = Raised(NoPreviousResult)
          /\ history' = history
          /\ last_result' = None]_vars

\* only a failed division has happened so far, and a chain with an
\* unsupported name was refused for want of a previous result
C6_Witness ==
    /\ call.name = "chain_operation"
    /\ call.op = "foo"
    /\ ret = Raised(NoPreviousResult)
    /\ Len(history) = 1
    /\ IsErrorEntry(history[1])
    /\ last_result = None

\* ---------------------------------------------------------------- C7
\* a chain_operation step that accepts exactly the names of the domain of
\* symbolOf, logging the symbol given for the name, and refuses the others
\* as unknown, leaving the state as it was
ChainNames(symbolOf) ==
    (Called("chain_operation") /\ last_result # None) =>
        IF call'.op \in DOMAIN symbolOf
        THEN /\ ret'.error # UnknownOperation
             /\ Len(history') = Len(history) + 1
             /\ LastEntry(history')[2] = Sym(symbolOf[call'.op])
        ELSE /\ ret' = Raised(UnknownOperation)
             /\ history' = history
             /\ last_result' = last_result

\* C7 as stated: with last_result present, chain_operation accepts exactly
\* add, multiply, mul, divide and div.
C7_AsStated ==
    [][ChainNames([add |-> "+", multiply |-> "*", mul |-> "*",
                   divide |-> "/", div |-> "/"])]_vars

\* C7, amended: with last_result present, chain_operation accepts exactly
\* add, mul and div (mul multiplies, div divides); every other name, the
\* long names multiply and divide included, raises the unknown-operation
\* error and leaves history and last_result as they were.
C7_ChainNames ==
    [][ChainNames([add |-> "+", mul |-> "*", div |-> "/"])]_vars

\* the long name multiply refused on a Calculator that holds a result
C7_Witness ==
    /\ call.name = "chain_operation"
    /\ call.op = "multiply"
    /\ ret = Raised(UnknownOperation)
    /\ last_result # None
    /\ Len(history) >= 1

\* ---------------------------------------------------------------- C8
\* the method a supported name stands for
ChainMethod == [add |-> "add", mul |-> "multiply", div |-> "divide"]

\* history reads "10 + 5 = ..", "<float> * 2 = ..", "<float> / 3 = ..":
\* add(10, 5) followed by chain mul 2 and chain div 3 (a direct call has an
\* int as its left operand, a chained call the float last_result)
IsExampleRun ==
    /\ Len(history) = 3
    /\ SubSeq(history[1], 1, 3) = <<Num(PyInt(10)), Sym("+"), Num(PyInt(5))>>
    /\ history[2][1].kind = "float"
    /\ SubSeq(history[2], 2, 3) = <<Sym("*"), Num(PyInt(2))>>
    /\ history[3][1].kind = "float"
    /\ SubSeq(history[3], 2, 3) = <<Sym("/"), Num(PyInt(3))>>

ExampleHistory ==
    << <<Num(PyInt(10)), Sym("+"), Num(PyInt(5)), EQ, Num(PyInt(15))>>,
       <<Num(PyFloat(15 * Scale)), Sym("*"), Num(PyInt(2)), EQ, Num(PyFloat(30 * Scale))>>,
       <<Num(PyFloat(30 * Scale)), Sym("/"), Num(PyInt(3)), EQ, Num(PyFloat(10 * Scale))>> >>

\* C8: with last_result = r present and a supported name, chain_operation
\* does what the method it names does on (r, value): same result or same
\* error, same one entry, same last_result; chain div 0 logs the error
\* entry and keeps r; add(10, 5), chain mul 2, chain div 3 gives 15, 30, 10,
\* three entries and last_result 10.
C8_ChainIsMethod ==
    /\ [][(/\ Called("chain_operation")
            /\ last_result # None
            /\ call'.op \in DOMAIN ChainMethod) =>
               MethodStep(ChainMethod[call'.op], last_result, call'.args[1])]_vars
    /\ [](IsExampleRun => (history = ExampleHistory /\ last_result = PyFloat(10 * Scale)))

\* the example run has just ended: chain div 3 returned 10.0
C8_Witness ==
    /\ IsExampleRun
    /\ call = Call("chain_operation", "div", <<PyInt(3)>>)
    /\ ret = Returned(PyFloat(10 * Scale))
    /\ last_result = PyFloat(10 * Scale)

\* ---------------------------------------------------------------- C9
\* C9: clear_history leaves the fields as the constructor does for the
\* same precision (history empty, last_result absent), whatever came
\* before, and a chain_operation issued right after it raises the
\* no-previous-result error.
C9_ClearHistory ==
    [][/\ Called("clear_history") =>
            /\ history' = <<>>
            /\ last_result' = None
            /\ precision' = precision
       /\ (call.name = "clear_history" /\ Called("chain_operation")) =>
            /\ ret' = Raised(NoPreviousResult)
            /\ history' = <<>>
            /\ last_result' = None]_vars

\* a Calculator that had returned a result was cleared, and the chain
\* issued next was refused
C9_Witness ==
    /\ cleared.succeeded > 0
    /\ attempts = cleared.attempts + 1
    /\ call.name = "chain_operation"
    /\ call.op = "add"
    /\ ret = Raised(NoPreviousResult)
    /\ history = <<>>
    /\ last_result = None

\* ---------------------------------------------------------------- C10
\* C10: every call but clear_history, successful or failed, leaves the old
\* history as a prefix of the new one and adds at most one entry; only
\* clear_history shortens the history.
C10_AppendOnly ==
    [][/\ ~Called("clear_history") =>
            /\ IsPrefix(history, history')
            /\ Len(history') <= Len(history) + 1
       /\ Len(history') < Len(history) => Called("clear_history")]_vars

\* a failed call and a get_history on a history of two entries, the second
\* logged after the first
C10_Witness ==
    /\ call.name = "get_history"
    /\ ret.list = history
    /\ Len(history) = 2
    /\ history[1] # history[2]
    /\ attempts = 3

\* ---------------------------------------------------------------- C11
\* the places of the success entries of a history
SuccessEntries(h) == {i \in 1..Len(h) : ~IsErrorEntry(h[i])}
\* the result recorded in the most recent success entry
LatestLoggedResult(h) ==
    LET i == CHOOSE k \in SuccessEntries(h) : \A j \in SuccessEntries(h) : j <= k
    IN  h[i][Len(h[i])]

\* C11: in every reachable state last_result is present exactly when the
\* history holds a success entry, and then it is the float of the result
\* recorded in the most recent success entry, whatever error entries were
\* logged after it.
C11_LastResultLinked ==
    /\ (last_result # None) <=> (SuccessEntries(history) # {})
    /\ last_result # None =>
        /\ last_result.kind = "float"
        /\ LatestLoggedResult(history).kind \in {"int", "float"}
        /\ last_result.units = LatestLoggedResult(history).units

\* a success followed by two logged failures: last_result still is the
\* result of the first entry
C11_Witness ==
    /\ Len(history) = 3
    /\ SuccessEntries(history) = {1}
    /\ history[1][5].units > 0
    /\ NumEq(last_result, history[1][5])

\* ---------------------------------------------------------------- C12
\* C12: get_history changes no field and returns the log, so that a second
\* call finds the list returned before, if nothing was appended since,
\* equal to what it returns; the list returned is the log itself: what the
\* operations append later shows in it; clear_history binds the Calculator
\* to a new empty list, and the list returned before keeps its entries and
\* follows the Calculator no more.
C12_ReturnedListIsLive ==
    /\ [](held.ref = "history" => held.items = history)
    /\ [][/\ Called("get_history") =>
               /\ history' = history
               /\ last_result' = last_result
               /\ precision' = precision
               /\ ret'.list = history
               /\ held'.ref = "history"
               /\ held'.items = history
          /\ (/\ Called("get_history")
              /\ held.ref = "history"
              /\ Len(held.items) = held.taken) => ret'.list = held.items
          /\ (call'.name \in OperationNames /\ held.ref = "history") =>
               /\ held'.ref = "history"
               /\ held'.items = history'
               /\ held'.taken = held.taken
          /\ (Called("clear_history") /\ held.ref = "history") =>
               /\ held'.ref = "detached"
               /\ held'.items = history
               /\ history' = <<>>
          /\ (held.ref = "detached" /\ ~Called("get_history")) => held' = held]_vars

\* the list returned grew by an entry while it was the log, was left
\* behind by clear_history with that entry, and the log has since taken a
\* different entry that the list does not show
C12_Witness ==
    /\ held.ref = "detached"
    /\ Len(held.items) > held.taken
    /\ history # <<>>
    /\ history[1] # held.items[1]
    /\ call.name # "get_history"

====
